---- MODULE Spec2Model ----
(***************************************************************************)
(* The MayaFlux Conan recipe (conanfile.py, class MayafluxConan) as a      *)
(* state machine.  The state is the recipe object's option set, its        *)
(* per-dependency option overrides, the requirement list, the toolchain    *)
(* variables, the package folder and cpp_info, together with the record of *)
(* the calls made so far.  One action per recipe method.                   *)
(***************************************************************************)
EXTENDS Integers, Sequences, FiniteSets, TLC

VARIABLES
    os,            \* self.settings.os (read-only input)
    options,       \* self.options: option name -> value, for the options present
    depOptions,    \* self.options["dep"].key: <<dep, key>> -> value
    writes,        \* every assignment made to depOptions, in program order
    requires,      \* the references passed to self.requires(), in call order
    folders,       \* what layout() has set
    tcVariables,   \* tc.variables of generate()
    packageFolder, \* the artifact classes written under self.package_folder
    cpp_info,      \* the fields of self.cpp_info assigned by package_info()
    log,           \* every method entered and every external call issued, in order
    pc,            \* the next method of the lifecycle, "done" or "aborted"
    err            \* the failure that aborted the lifecycle, or "none"

vars == <<os, options, depOptions, writes, requires, folders, tcVariables,
          packageFolder, cpp_info, log, pc, err>>

\* The values of settings.os the recipe is resolved for.
OSes == {"Windows", "Linux", "Macos", "FreeBSD"}

\* options: the recipe's own options, each with the domain [True, False].
OptionNames == {"shared", "fPIC", "with_lila"}

EmptyMap == [x \in {} |-> TRUE]

\* default_options, the recipe's own part: every option defaults to True.
default_options == [n \in OptionNames |-> TRUE]

\* default_options, the "dep:key" part, as <<dep, key>> -> value.
default_dep_options ==
    [p \in {<<"ffmpeg", "shared">>, <<"llvm", "shared">>, <<"rtaudio", "shared">>,
            <<"glfw", "shared">>, <<"vulkan-loader", "shared">>} |-> TRUE]

\* One assignment self.options[dep].key = val made by the rule named rule.
Write(rule, dep, key, val) == [rule |-> rule, dep |-> dep, key |-> key, val |-> val]

\* The default table seen as a rule: one write per entry, in table order.
DefaultWrites ==
    << Write("default", "ffmpeg", "shared", TRUE),
       Write("default", "llvm", "shared", TRUE),
       Write("default", "rtaudio", "shared", TRUE),
       Write("default", "glfw", "shared", TRUE),
       Write("default", "vulkan-loader", "shared", TRUE) >>

\* Variant of ConfigOptionsWrites: the Windows rule also forces glfw static.
ConfigOptionsWritesGlfw(o) ==
    IF o = "Windows"
    THEN << Write("config_options", "ffmpeg", "shared", FALSE),
            Write("config_options", "rtaudio", "shared", FALSE),
            Write("config_options", "glfw", "shared", FALSE) >>
    ELSE << >>

\* The dependency-option assignments of config_options() for a target OS.
ConfigOptionsWrites(o) ==
    IF o = "Windows"
    THEN << Write("config_options", "ffmpeg", "shared", FALSE),
            Write("config_options", "rtaudio", "shared", FALSE) >>
    ELSE << >>

\* Variant of ConfigureWrites: the test on with_lila has lost its "not".
ConfigureWritesInverted(opts) ==
    IF opts["with_lila"]
    THEN << Write("configure", "llvm", "shared", FALSE) >>
    ELSE << >>

\* Variant of ConfigureWrites: the with_lila = false rule also forces ffmpeg
\* static, the pair the Windows rule writes.
ConfigureWritesFfmpeg(opts) ==
    IF ~opts["with_lila"]
    THEN << Write("configure", "llvm", "shared", FALSE),
            Write("configure", "ffmpeg", "shared", FALSE) >>
    ELSE << >>

\* The dependency-option assignments of configure() for an option set.
ConfigureWrites(opts) ==
    IF ~opts["with_lila"]
    THEN << Write("configure", "llvm", "shared", FALSE) >>
    ELSE << >>

\* Assigning through self.options[dep].key: the entry is created or overwritten.
RECURSIVE ApplyWrites(_, _)
ApplyWrites(m, ws) ==
    IF ws = << >> THEN m
    ELSE LET w == Head(ws)
             k == <<w.dep, w.key>>
             m1 == [p \in DOMAIN m \cup {k} |-> IF p = k THEN w.val ELSE m[p]]
         IN ApplyWrites(m1, Tail(ws))

\* Variant of ConfigOptionsOptions: fPIC is set to False on Windows, not removed.
ConfigOptionsOptionsDefaulted(o, opts) ==
    IF o = "Windows"
    THEN [n \in DOMAIN opts |-> IF n = "fPIC" THEN FALSE ELSE opts[n]]
    ELSE opts

\* del self.options.fPIC on Windows; the option set is otherwise untouched.
ConfigOptionsOptions(o, opts) ==
    IF o = "Windows"
    THEN [n \in DOMAIN opts \ {"fPIC"} |-> opts[n]]
    ELSE opts

Ref(name, version) == [name |-> name, version |-> version]

\* Variant of RequirementsList: llvm is required whatever with_lila says.
RequirementsListAlwaysLlvm(o, opts) ==
    << Ref("rtaudio", "5.2.0"), Ref("eigen", "3.4.0"),
       Ref("magic_enum", "0.9.3"), Ref("glfw", "3.3.8"),
       Ref("ffmpeg", "5.1.2"),
       Ref("vulkan-loader", "1.3.250.0"), Ref("vulkan-headers", "1.3.250.0") >>
    \o (IF o = "Windows" THEN << Ref("ms-gsl", "4.0.0") >>
                         ELSE << Ref("tbb", "2020.3") >>)
    \o << Ref("fmt", "10.0.0"), Ref("gtest", "1.14.0") >>
    \o << Ref("llvm", "17.0.6") >>

\* The self.requires() calls of requirements(), in order.
RequirementsList(o, opts) ==
    << Ref("rtaudio", "5.2.0"), Ref("eigen", "3.4.0"),
       Ref("magic_enum", "0.9.3"), Ref("glfw", "3.3.8"),
       Ref("ffmpeg", "5.1.2"),
       Ref("vulkan-loader", "1.3.250.0"), Ref("vulkan-headers", "1.3.250.0") >>
    \o (IF o = "Windows" THEN << Ref("ms-gsl", "4.0.0") >>
                         ELSE << Ref("tbb", "2020.3") >>)
    \o << Ref("fmt", "10.0.0"), Ref("gtest", "1.14.0") >>
    \o (IF opts["with_lila"] THEN << Ref("llvm", "17.0.6") >> ELSE << >>)

\* The order in which the package manager calls the recipe's methods.
Lifecycle ==
    << "config_options", "configure", "requirements", "layout",
       "generate", "build", "package", "package_info" >>

\* The method called once the method m has returned, "done" after the last.
StageAfter(m) ==
    LET i == CHOOSE k \in 1..Len(Lifecycle) : Lifecycle[k] = m
    IN IF i < Len(Lifecycle) THEN Lifecycle[i + 1] ELSE "done"

Init ==
    /\ os \in OSes
    /\ options \in [OptionNames -> BOOLEAN]
    /\ depOptions = default_dep_options
    /\ writes = DefaultWrites
    /\ requires = << >>
    /\ folders = "unset"
    /\ tcVariables = EmptyMap
    /\ packageFolder = {}
    /\ cpp_info = EmptyMap
    /\ log = << >>
    /\ pc = Head(Lifecycle)
    /\ err = "none"

config_options ==
    /\ pc = "config_options"
    /\ options' = ConfigOptionsOptions(os, options)
    /\ depOptions' = ApplyWrites(depOptions, ConfigOptionsWrites(os))
    /\ writes' = writes \o ConfigOptionsWrites(os)
    /\ log' = Append(log, "config_options")
    /\ pc' = StageAfter("config_options")
    /\ UNCHANGED <<os, requires, folders, tcVariables, packageFolder, cpp_info, err>>

configure ==
    /\ pc = "configure"
    /\ depOptions' = ApplyWrites(depOptions, ConfigureWrites(options))
    /\ writes' = writes \o ConfigureWrites(options)
    /\ log' = Append(log, "configure")
    /\ pc' = StageAfter("configure")
    /\ UNCHANGED <<os, options, requires, folders, tcVariables, packageFolder,
                   cpp_info, err>>

requirements ==
    /\ pc = "requirements"
    /\ requires' = RequirementsList(os, options)
    /\ log' = Append(log, "requirements")
    /\ pc' = StageAfter("requirements")
    /\ UNCHANGED <<os, options, depOptions, writes, folders, tcVariables,
                   packageFolder, cpp_info, err>>

layout ==
    /\ pc = "layout"
    /\ folders' = "cmake_layout"
    /\ log' = Append(log, "layout")
    /\ pc' = StageAfter("layout")
    /\ UNCHANGED <<os, options, depOptions, writes, requires, tcVariables,
                   packageFolder, cpp_info, err>>

\* Variant of ToolchainVariables: the TBB branch tests for Linux instead of
\* being the else branch, so Macos and FreeBSD get neither backend.
ToolchainVariablesLinuxTbb(o, opts) ==
    ("BUILD_LILA" :> opts["with_lila"])
    @@ ("MAYAFLUX_USE_CONAN" :> TRUE)
    @@ (IF o = "Windows" THEN "USE_PPL_BACKEND" :> TRUE
        ELSE IF o = "Linux" THEN "USE_TBB_BACKEND" :> TRUE
        ELSE EmptyMap)
    @@ (IF o = "Macos" THEN "MAYAFLUX_USE_FMT" :> TRUE ELSE EmptyMap)

\* Variant of ToolchainVariables: MAYAFLUX_USE_FMT is set on every non-Windows OS.
ToolchainVariablesFmtUnix(o, opts) ==
    ("BUILD_LILA" :> opts["with_lila"])
    @@ ("MAYAFLUX_USE_CONAN" :> TRUE)
    @@ (IF o = "Windows" THEN "USE_PPL_BACKEND" :> TRUE
                         ELSE "USE_TBB_BACKEND" :> TRUE)
    @@ (IF o # "Windows" THEN "MAYAFLUX_USE_FMT" :> TRUE ELSE EmptyMap)

\* tc.variables as generate() fills it for a target OS and an option set.
ToolchainVariables(o, opts) ==
    ("BUILD_LILA" :> opts["with_lila"])
    @@ ("MAYAFLUX_USE_CONAN" :> TRUE)
    @@ (IF o = "Windows" THEN "USE_PPL_BACKEND" :> TRUE
                         ELSE "USE_TBB_BACKEND" :> TRUE)
    @@ (IF o = "Macos" THEN "MAYAFLUX_USE_FMT" :> TRUE ELSE EmptyMap)

generate ==
    /\ pc = "generate"
    /\ tcVariables' = ToolchainVariables(os, options)
    /\ log' = log \o << "generate", "CMakeDeps.generate", "CMakeToolchain.generate" >>
    /\ pc' = StageAfter("generate")
    /\ UNCHANGED <<os, options, depOptions, writes, requires, folders,
                   packageFolder, cpp_info, err>>

\* How the external native tool answers the calls of build().
BuildOutcomes == {"ok", "configure_fails", "build_fails"}

\* Variant of BuildCalls: the two calls are issued in the opposite order.
BuildCallsSwapped(outcome) ==
    IF outcome = "build_fails"
    THEN << "cmake.build" >>
    ELSE << "cmake.build", "cmake.configure" >>

\* The calls build() issues: cmake.configure(), then, once that has returned
\* without raising, cmake.build().
BuildCalls(outcome) ==
    IF outcome = "configure_fails"
    THEN << "cmake.configure" >>
    ELSE << "cmake.configure", "cmake.build" >>

build ==
    /\ pc = "build"
    /\ \E outcome \in BuildOutcomes :
          /\ log' = Append(log, "build") \o BuildCalls(outcome)
          /\ err' = IF outcome = "ok" THEN "none" ELSE "ExternalToolError"
          /\ pc' = IF outcome = "ok" THEN StageAfter("build") ELSE "aborted"
    /\ UNCHANGED <<os, options, depOptions, writes, requires, folders,
                   tcVariables, packageFolder, cpp_info>>

\* How the external collaborators answer the calls of package().
PackageOutcomes == {"ok", "install_fails", "h_fails", "hpp_fails"}

\* Variant of PackageResult: a failing header copy empties the package folder
\* before the error is raised.
PackageResultRollback(outcome) ==
    CASE outcome = "install_fails" ->
            [calls |-> << "cmake.install" >>,
             written |-> {},
             err |-> "ExternalToolError"]
      [] outcome = "h_fails" ->
            [calls |-> << "cmake.install", "copy:*.h" >>,
             written |-> {},
             err |-> "ResourceError"]
      [] outcome = "hpp_fails" ->
            [calls |-> << "cmake.install", "copy:*.h", "copy:*.hpp" >>,
             written |-> {},
             err |-> "ResourceError"]
      [] OTHER ->
            [calls |-> << "cmake.install", "copy:*.h", "copy:*.hpp" >>,
             written |-> {"cmake.install", "copy:*.h", "copy:*.hpp"},
             err |-> "none"]

\* package(): cmake.install(), copy("*.h"), copy("*.hpp"), each reached only when
\* the one before it returned; a call that raises ends the method there, and
\* what the earlier calls wrote stays in the package folder.
PackageResult(outcome) ==
    CASE outcome = "install_fails" ->
            [calls |-> << "cmake.install" >>,
             written |-> {},
             err |-> "ExternalToolError"]
      [] outcome = "h_fails" ->
            [calls |-> << "cmake.install", "copy:*.h" >>,
             written |-> {"cmake.install"},
             err |-> "ResourceError"]
      [] outcome = "hpp_fails" ->
            [calls |-> << "cmake.install", "copy:*.h", "copy:*.hpp" >>,
             written |-> {"cmake.install", "copy:*.h"},
             err |-> "ResourceError"]
      [] OTHER ->
            [calls |-> << "cmake.install", "copy:*.h", "copy:*.hpp" >>,
             written |-> {"cmake.install", "copy:*.h", "copy:*.hpp"},
             err |-> "none"]

package ==
    /\ pc = "package"
    /\ \E outcome \in PackageOutcomes :
          LET r == PackageResult(outcome) IN
          /\ log' = Append(log, "package") \o r.calls
          /\ packageFolder' = packageFolder \cup r.written
          /\ err' = r.err
          /\ pc' = IF r.err = "none" THEN StageAfter("package") ELSE "aborted"
    /\ UNCHANGED <<os, options, depOptions, writes, requires, folders,
                   tcVariables, cpp_info>>

\* Variant of PackageInfo: the lila component does not require the primary
\* library's own target.
PackageInfoNoPrimary(o, opts) ==
    ("libs" :> << "MayaFluxLib" >>)
    @@ (IF opts["with_lila"]
        THEN "components" :>
               ("lila" :> [libs |-> << "Lila" >>,
                           requires |-> << "llvm::llvm", "clang::clang" >>])
        ELSE EmptyMap)
    @@ (IF o = "Windows" THEN "bindirs" :> << "bin" >>
                         ELSE "libdirs" :> << "lib" >>)

\* The fields of self.cpp_info that package_info() assigns.
PackageInfo(o, opts) ==
    ("libs" :> << "MayaFluxLib" >>)
    @@ (IF opts["with_lila"]
        THEN "components" :>
               ("lila" :> [libs |-> << "Lila" >>,
                           requires |-> << "llvm::llvm", "clang::clang",
                                           "mayaflux::mayaflux" >>])
        ELSE EmptyMap)
    @@ (IF o = "Windows" THEN "bindirs" :> << "bin" >>
                         ELSE "libdirs" :> << "lib" >>)

package_info ==
    /\ pc = "package_info"
    /\ cpp_info' = PackageInfo(os, options)
    /\ log' = Append(log, "package_info")
    /\ pc' = StageAfter("package_info")
    /\ UNCHANGED <<os, options, depOptions, writes, requires, folders,
                   tcVariables, packageFolder, err>>

Next ==
    \/ config_options
    \/ configure
    \/ requirements
    \/ layout
    \/ generate
    \/ build
    \/ package
    \/ package_info

Spec == Init /\ [][Next]_vars

(***************************************************************************)
(* Properties.                                                             *)
(***************************************************************************)

\* The method or external call named c has been entered or issued.
Done(c) == \E i \in 1..Len(log) : log[i] = c

Range(q) == {q[i] : i \in 1..Len(q)}

\* The names of the dependencies requirements() declared.
RequiredNames == {requires[i].name : i \in 1..Len(requires)}

\* The toolchain variable v is present with the value true.
IsTrue(v) == v \in DOMAIN tcVariables /\ tcVariables[v] = TRUE

\* The option vector is the default one (fPIC, where it still exists).
StartedFromDefaults ==
    /\ options["shared"] = default_options["shared"]
    /\ options["with_lila"] = default_options["with_lila"]
    /\ "fPIC" \in DOMAIN options => options["fPIC"] = default_options["fPIC"]

\* The dependency names that have an override entry but were not required.
OrphanOverrides == {p[1] : p \in DOMAIN depOptions} \ RequiredNames

\* The external native build calls issued so far.
CmakeCalls ==
    SelectSeq(log, LAMBDA c : c \in {"cmake.configure", "cmake.build", "cmake.install"})

\* The one order in which a complete run enters the methods and issues the calls.
FullOrder ==
    << "config_options", "configure", "requirements", "layout",
       "generate", "CMakeDeps.generate", "CMakeToolchain.generate",
       "build", "cmake.configure", "cmake.build",
       "package", "cmake.install", "copy:*.h", "copy:*.hpp",
       "package_info" >>

IsPrefix(a, b) == Len(a) <= Len(b) /\ \A i \in 1..Len(a) : a[i] = b[i]

\* C1: once requirements() has run with with_lila = false, on any OS, the
\* requirement list contains neither llvm nor clang.
C1_NoJitWithoutLila ==
    (Done("requirements") /\ ~options["with_lila"])
        => RequiredNames \cap {"llvm", "clang"} = {}

C1_Witness ==
    /\ Done("requirements")
    /\ ~options["with_lila"]
    /\ Len(requires) = 10
    /\ "tbb" \in RequiredNames

\* C2: once generate() has run, exactly one of USE_PPL_BACKEND and
\* USE_TBB_BACKEND is true, USE_PPL_BACKEND exactly on Windows, and the
\* requirement list holds ms-gsl exactly on Windows and tbb exactly elsewhere.
C2_ExactlyOneBackend ==
    Done("generate") =>
        /\ Cardinality({v \in {"USE_PPL_BACKEND", "USE_TBB_BACKEND"} : IsTrue(v)}) = 1
        /\ IsTrue("USE_PPL_BACKEND") <=> os = "Windows"
        /\ IsTrue("USE_TBB_BACKEND") <=> os # "Windows"
        /\ "ms-gsl" \in RequiredNames <=> os = "Windows"
        /\ "tbb" \in RequiredNames <=> os # "Windows"

C2_Witness ==
    /\ Done("generate")
    /\ os = "Macos"
    /\ IsTrue("USE_TBB_BACKEND")
    /\ "USE_PPL_BACKEND" \notin DOMAIN tcVariables
    /\ "tbb" \in RequiredNames

\* C3: from the return of config_options() on, the option fPIC exists exactly
\* when the OS is not Windows.
C3_fPICIffNotWindows ==
    Done("config_options") => ("fPIC" \in DOMAIN options <=> os # "Windows")

C3_Witness ==
    /\ Done("generate")
    /\ os = "Windows"
    /\ DOMAIN options = {"shared", "with_lila"}

\* C4: with the default option vector on Windows, the overrides finalized by
\* config_options() and configure() are the defaults with ffmpeg:shared and
\* rtaudio:shared false and nothing else changed, although shared is true;
\* on any other OS the overrides are the defaults when config_options() returns.
C4_WindowsStaticOverrides ==
    /\ (os = "Windows" /\ StartedFromDefaults /\ Done("configure")) =>
          /\ options["shared"] = TRUE
          /\ depOptions[<<"ffmpeg", "shared">>] = FALSE
          /\ depOptions[<<"rtaudio", "shared">>] = FALSE
          /\ depOptions[<<"glfw", "shared">>] = TRUE
          /\ depOptions[<<"vulkan-loader", "shared">>] = TRUE
          /\ \A p \in DOMAIN default_dep_options :
                p \notin {<<"ffmpeg", "shared">>, <<"rtaudio", "shared">>}
                    => depOptions[p] = default_dep_options[p]
          /\ DOMAIN depOptions = DOMAIN default_dep_options
    /\ (os # "Windows" /\ pc = "configure") => depOptions = default_dep_options

C4_Witness ==
    /\ os = "Windows"
    /\ StartedFromDefaults
    /\ pc = "done"
    /\ depOptions[<<"ffmpeg", "shared">>] = FALSE
    /\ depOptions[<<"rtaudio", "shared">>] = FALSE

\* C5: once package_info() has run with with_lila = true, on any OS, cpp_info
\* has the component lila with the library Lila, and its requires hold
\* mayaflux::mayaflux, llvm::llvm and clang::clang.
C5_LilaComponent ==
    (Done("package_info") /\ options["with_lila"]) =>
        /\ "components" \in DOMAIN cpp_info
        /\ "lila" \in DOMAIN cpp_info["components"]
        /\ cpp_info["components"]["lila"].libs = << "Lila" >>
        /\ {"mayaflux::mayaflux", "llvm::llvm", "clang::clang"}
              \subseteq Range(cpp_info["components"]["lila"].requires)

C5_Witness ==
    /\ pc = "done"
    /\ options["with_lila"]
    /\ "components" \in DOMAIN cpp_info
    /\ "lila" \in DOMAIN cpp_info["components"]

\* C6: once generate() has run, MAYAFLUX_USE_FMT is in the variable set exactly
\* when the OS is Macos, and then it is true, whatever the options are.
C6_FmtOnlyOnMacos ==
    Done("generate") =>
        /\ "MAYAFLUX_USE_FMT" \in DOMAIN tcVariables <=> os = "Macos"
        /\ "MAYAFLUX_USE_FMT" \in DOMAIN tcVariables => tcVariables["MAYAFLUX_USE_FMT"] = TRUE

C6_Witness ==
    /\ Done("generate")
    /\ os = "Macos"
    /\ IsTrue("MAYAFLUX_USE_FMT")

\* C7, as stated: when the override map names a dependency that requirements()
\* did not declare, no external native build call is issued, the lifecycle
\* does not complete, and it aborts with a ConfigurationError.
C7_OrphanOverrideIsFatal ==
    (Done("requirements") /\ OrphanOverrides # {}) =>
        /\ CmakeCalls = << >>
        /\ pc # "done"
        /\ pc = "aborted" => err = "ConfigurationError"

\* C7, amended: the override map names a dependency that requirements() did
\* not declare exactly when with_lila = false; the name is llvm and its entry
\* is shared = false; no ConfigurationError is raised for it, and build() goes
\* on to issue cmake configure first.
C7_OrphanOverrideIsCarried ==
    Done("requirements") =>
        /\ OrphanOverrides = (IF options["with_lila"] THEN {} ELSE {"llvm"})
        /\ ~options["with_lila"] => depOptions[<<"llvm", "shared">>] = FALSE
        /\ err # "ConfigurationError"
        /\ Done("build") => (CmakeCalls # << >> /\ Head(CmakeCalls) = "cmake.configure")

C7_Witness ==
    /\ OrphanOverrides = {"llvm"}
    /\ pc = "done"
    /\ err = "none"
    /\ CmakeCalls = << "cmake.configure", "cmake.build", "cmake.install" >>

\* C8, as stated: a failing header copy is fatal and leaves nothing in the
\* package folder.
C8_NoPartialPackage ==
    err = "ResourceError" => (pc = "aborted" /\ packageFolder = {})

\* C8, amended: a failing header copy is fatal (the lifecycle aborts, no later
\* copy is issued and package_info() never runs), but what the earlier steps
\* of package() wrote stays in the package folder: the cmake install output,
\* and the *.h headers when it is the *.hpp copy that failed.
C8_FatalButPartial ==
    err = "ResourceError" =>
        /\ pc = "aborted"
        /\ ~Done("package_info")
        /\ cpp_info = EmptyMap
        /\ log[Len(log)] \in {"copy:*.h", "copy:*.hpp"}
        /\ log[Len(log)] = "copy:*.h" =>
              (packageFolder = {"cmake.install"} /\ ~Done("copy:*.hpp"))
        /\ log[Len(log)] = "copy:*.hpp" =>
              packageFolder = {"cmake.install", "copy:*.h"}

C8_Witness ==
    /\ err = "ResourceError"
    /\ pc = "aborted"
    /\ log[Len(log)] = "copy:*.hpp"
    /\ packageFolder = {"cmake.install", "copy:*.h"}

\* C9: the methods entered and the calls issued so far are always an initial
\* part of the one fixed order (so nothing overlaps, repeats or re-enters an
\* earlier stage, cmake configure precedes cmake build, and install, the header
\* copies and package_info() follow the build call); a failure aborts the
\* lifecycle, and a completed lifecycle has gone through the whole order.
C9_FixedOrder ==
    /\ IsPrefix(log, FullOrder)
    /\ err # "none" => pc = "aborted"
    /\ pc = "aborted" => err # "none"
    /\ Done("package") => (err = "none" \/ Done("cmake.install"))
    /\ pc = "done" => log = FullOrder

C9_Witness ==
    /\ pc = "done"
    /\ log = FullOrder
    /\ CmakeCalls = << "cmake.configure", "cmake.build", "cmake.install" >>

\* C10, as stated: no two rules (the default table, the Windows rule of
\* config_options(), the with_lila = false rule of configure()) write the same
\* (dependency, key) pair.
C10_RulesPartitioned ==
    \A i, j \in 1..Len(writes) :
        (i < j /\ writes[i].dep = writes[j].dep /\ writes[i].key = writes[j].key)
            => writes[i].rule = writes[j].rule

\* The value of the last write to the pair p.
LastWritten(p) ==
    LET idx == {i \in 1..Len(writes) : <<writes[i].dep, writes[i].key>> = p}
        last == CHOOSE i \in idx : \A k \in idx : k <= i
    IN writes[last].val

\* C10, amended: the two conditional rules never write the same pair, and no
\* pair is written twice by them; every pair they write is one the default
\* table wrote first, and the override map holds for every pair the value of
\* its last write: the conditional rule's where there is one, else the default.
C10_ConditionalRulesPartitioned ==
    /\ \A i, j \in 1..Len(writes) :
          (i < j /\ writes[i].dep = writes[j].dep /\ writes[i].key = writes[j].key)
              => (writes[i].rule = "default" /\ writes[j].rule # "default")
    /\ \A i \in 1..Len(writes) :
          <<writes[i].dep, writes[i].key>> \in DOMAIN default_dep_options
    /\ \A p \in DOMAIN depOptions : depOptions[p] = LastWritten(p)

C10_Witness ==
    /\ os = "Windows"
    /\ ~options["with_lila"]
    /\ Done("configure")
    /\ Len(writes) = 8
    /\ depOptions[<<"ffmpeg", "shared">>] = FALSE
    /\ depOptions[<<"llvm", "shared">>] = FALSE
====
